---- MODULE Spec2Model ----
(***************************************************************************)
(* Model of package sudokuconv (src/sudokuconv.go): ToBytes packs a        *)
(* solved 9x9 sudoku into 23/24 bytes, FromBytes unpacks and re-derives    *)
(* the omitted cells.  Boards are functions [0..8 -> [0..8 -> Int]] (Go's  *)
(* [9][9]int, indices as in the source); slices are sequences, read with   *)
(* a 0-based index through At.  uint8 arithmetic wraps modulo 256.         *)
(***************************************************************************)
EXTENDS Integers, Sequences, FiniteSets, TLC

VARIABLES pc, board, peer, lens, enc, probe, wire, dec, ok, grid,
          nibble, syms, unpacked

vars == <<pc, board, peer, lens, enc, probe, wire, dec, ok, grid,
          nibble, syms, unpacked>>

(***************************************************************************)
(* Go's integer operators on uint8 / uint.                                 *)
(***************************************************************************)
Rows == 0..8

At(s, i) == s[i + 1]

\* uint8 x << n : bits shifted past bit 7 are lost, a count >= 8 gives 0
Shl8(x, n) == IF n >= 8 THEN 0 ELSE (x * (2^n)) % 256

\* uint8 x >> n
Shr8(x, n) == IF n >= 8 THEN 0 ELSE x \div (2^n)

Bit(x, i) == (x \div (2^i)) % 2

\* uint8 x & y, bit by bit from the lowest
RECURSIVE And8(_, _)
And8(x, y) ==
    IF x = 0 \/ y = 0 THEN 0
    ELSE ((x % 2) * (y % 2)) + (2 * And8(x \div 2, y \div 2))

\* uint8 x ^ y, bit by bit from the lowest
RECURSIVE Xor8(_, _)
Xor8(x, y) ==
    IF x = 0 THEN y
    ELSE IF y = 0 THEN x
    ELSE (((x % 2) + (y % 2)) % 2) + (2 * Xor8(x \div 2, y \div 2))

\* bits.TrailingZeros8: 8 for x = 0
RECURSIVE TrailingZeros8From(_, _)
TrailingZeros8From(x, i) ==
    IF i = 8 THEN 8
    ELSE IF Bit(x, i) = 1 THEN i
    ELSE TrailingZeros8From(x, i + 1)

TrailingZeros8(x) == TrailingZeros8From(x, 0)

\* symbolMasks extract the 3 bits of a symbol
symbolMasks == <<4, 2, 1>>

\* bitMasks extract each bit of a byte
bitMasks == <<128, 64, 32, 16, 8, 4, 2, 1>>

\* bytes := [24]byte{}
BufLen == 24

ZeroBoard == [r \in Rows |-> [c \in Rows |-> 0]]

SetCell(b, r, c, v) == [b EXCEPT ![r][c] = v]

(***************************************************************************)
(* validate                                                                *)
(***************************************************************************)
\* sort.Ints on a 9-element group: insertion of x into a sorted sequence
RECURSIVE InsertSorted(_, _)
InsertSorted(s, x) ==
    IF s = <<>> THEN <<x>>
    ELSE IF x <= Head(s) THEN <<x>> \o s
    ELSE <<Head(s)>> \o InsertSorted(Tail(s), x)

RECURSIVE SortInts(_)
SortInts(s) == IF s = <<>> THEN <<>> ELSE InsertSorted(SortInts(Tail(s)), Head(s))

\* validateGroup as it would be with the loop one element short
validateGroupSkipsLast(group) ==
    LET sorted == SortInts(group)
    IN \A idx \in 0..7 : At(sorted, idx) = idx + 1

validateGroup(group) ==
    LET sorted == SortInts(group)
    IN \A idx \in 0..8 : At(sorted, idx) = idx + 1

rowOf(b, rowIdx) == [i \in 1..9 |-> b[rowIdx][i - 1]]

extractCol(b, idx) == [i \in 1..9 |-> b[i - 1][idx]]

extractGrid(b, x, y) ==
    [i \in 1..9 |-> b[(x * 3) + ((i - 1) \div 3)][(y * 3) + ((i - 1) % 3)]]

validate(b) ==
    /\ \A rowIdx \in Rows : validateGroup(rowOf(b, rowIdx))
    /\ \A colIdx \in Rows : validateGroup(extractCol(b, colIdx))
    /\ \A x \in 0..2 : \A y \in 0..2 : validateGroup(extractGrid(b, x, y))

(***************************************************************************)
(* Redundancy selection and ToBytes                                        *)
(***************************************************************************)
\* firstInBlock as it would be with the last comparison forgotten
firstInBlockMissesLast(rowIdx, colIdx) ==
    LET block == 0 + 2^(8 - rowIdx) + 2^(8 - colIdx)
    IN block = 512 \/ block = 288

firstInBlock(rowIdx, colIdx) ==
    LET block == 0 + 2^(8 - rowIdx) + 2^(8 - colIdx)
    IN block = 512 \/ block = 288 \/ block = 64

includeVal(rowIdx, colIdx, val) ==
    ~firstInBlock(rowIdx, colIdx) /\ rowIdx < 8 /\ colIdx < 8 /\ val # 9

\* the cells in the order the two range loops visit them
cellOrder == [i \in 1..81 |-> [rowIdx |-> (i - 1) \div 9, colIdx |-> (i - 1) % 9]]

\* toIntermediate: RowWith9Last is assigned at every 9 of column 8 (the last
\* assignment stays, 0 when there is none); NineIndices and OtherSymbols are
\* appended to in visiting order
toIntermediate(b) ==
    LET last9(cell) == b[cell.rowIdx][cell.colIdx] = 9 /\ cell.colIdx = 8
        other9(cell) == b[cell.rowIdx][cell.colIdx] = 9 /\ cell.colIdx # 8
        symbol(cell) ==
            /\ b[cell.rowIdx][cell.colIdx] # 9
            /\ includeVal(cell.rowIdx, cell.colIdx, b[cell.rowIdx][cell.colIdx])
        lasts == SelectSeq(cellOrder, last9)
        nines == SelectSeq(cellOrder, other9)
        others == SelectSeq(cellOrder, symbol)
    IN [RowWith9Last |->
            IF lasts = <<>> THEN 0 ELSE lasts[Len(lasts)].rowIdx % 256,
        NineIndices |-> [i \in 1..Len(nines) |-> nines[i].colIdx % 256],
        OtherSymbols |->
            [i \in 1..Len(others) |->
                (b[others[i].rowIdx][others[i].colIdx] - 1) % 256]]

byteSize(bitSize) == (bitSize + 7) \div 8

\* the inner loop of ToBytes for one symbol v, from mask idxInSymbol on; a
\* write past the [24]byte array panics (index out of range)
RECURSIVE packSymbol(_, _, _)
packSymbol(v, idxInSymbol, st) ==
    IF st.panic \/ idxInSymbol = 3 THEN st
    ELSE LET mask == At(symbolMasks, idxInSymbol)
             bitIdx == st.bitIdx
             idxInByte == 7 - (bitIdx % 8)
             at == bitIdx \div 8
         IN IF at >= BufLen
              THEN [st EXCEPT !.panic = TRUE]
              ELSE packSymbol(v, idxInSymbol + 1,
                     [st EXCEPT
                        !.bytes[at] =
                            (@ + Shl8(Shr8(And8(v, mask), 2 - idxInSymbol),
                                      idxInByte)) % 256,
                        !.bitIdx = bitIdx + 1])

\* the outer loop of ToBytes over append(NineIndices, OtherSymbols...)
RECURSIVE packFrom(_, _, _)
packFrom(all, n, st) ==
    IF st.panic \/ n = Len(all) THEN st
    ELSE packFrom(all, n + 1, packSymbol(At(all, n), 0, st))

\* lines 33-45 of ToBytes: the buffer, the row nibble, the loop, the slice
pack(RowWith9Last, all) ==
    LET st == packFrom(all, 0,
                [panic |-> FALSE,
                 bytes |-> [i \in 0..(BufLen - 1) |->
                              IF i = 0 THEN Shl8(RowWith9Last, 4) ELSE 0],
                 bitIdx |-> 4])
    IN IF st.panic
         THEN [tag |-> "panic", bytes |-> <<>>]
         ELSE [tag |-> "ok",
               bytes |-> [i \in 1..byteSize(st.bitIdx) |-> st.bytes[i - 1]]]

ToBytes(b) ==
    IF ~validate(b)
      THEN [tag |-> "err", bytes |-> <<>>]
      ELSE LET im == toIntermediate(b)
           IN pack(im.RowWith9Last, im.NineIndices \o im.OtherSymbols)

(***************************************************************************)
(* FromBytes                                                               *)
(***************************************************************************)
\* streamBit as it would be with the shift count not mirrored
streamBitUnmirrored(bytes, pos) ==
    LET b == At(bytes, pos \div 8)
        idxInByte == pos % 8
    IN Shr8(And8(b, At(bitMasks, idxInByte)), idxInByte)

\* bit := b & bitMasks[idxInByte]; bit>>(7-idxInByte), for stream position pos
streamBit(bytes, pos) ==
    LET b == At(bytes, pos \div 8)
        idxInByte == pos % 8
    IN Shr8(And8(b, At(bitMasks, idxInByte)), 7 - idxInByte)

\* toSymbols: the loops start at bit 4 of the first byte and run to the last
\* bit; idxInSymbol cycles 0,1,2, so symbol j is accumulated from the stream
\* positions 4+3j .. 6+3j and appended at the third; a trailing incomplete
\* symbol is never appended
toSymbols(bytes) ==
    [j \in 1..(((8 * Len(bytes)) - 4) \div 3) |->
        LET pos == 4 + (3 * (j - 1))
        IN (((Shl8(streamBit(bytes, pos), 2 - 0)
              + Shl8(streamBit(bytes, pos + 1), 2 - 1)) % 256)
            + Shl8(streamBit(bytes, pos + 2), 2 - 2)) % 256]

\* the loop of fill9s from entry rowIdx of NineIndices on; an index outside
\* the [9][9]int panics
RECURSIVE fill9sFrom(_, _, _)
fill9sFrom(im, rowIdx, st) ==
    IF st.panic \/ rowIdx = Len(im.NineIndices) THEN st
    ELSE LET colIdx == At(im.NineIndices, rowIdx)
             r == IF rowIdx >= im.RowWith9Last THEN rowIdx + 1 ELSE rowIdx
         IN IF r > 8 \/ colIdx > 8
              THEN [st EXCEPT !.panic = TRUE]
              ELSE fill9sFrom(im, rowIdx + 1,
                              [st EXCEPT !.board = SetCell(@, r, colIdx, 9)])

fill9s(im, b) ==
    IF im.RowWith9Last > 8
      THEN [panic |-> TRUE, board |-> b]
      ELSE fill9sFrom(im, 0,
             [panic |-> FALSE, board |-> SetCell(b, im.RowWith9Last, 8, 9)])

\* the inner loop of fillOtherSymbols over the columns of row rowIdx; val is
\* read from the copy `range board` made (b0)
RECURSIVE fillOtherSymbolsRow(_, _, _, _, _)
fillOtherSymbolsRow(im, b0, rowIdx, colIdx, st) ==
    IF st.err \/ colIdx = 9 THEN st
    ELSE IF includeVal(rowIdx, colIdx, b0[rowIdx][colIdx])
      THEN IF st.valIdx >= Len(im.OtherSymbols)
             THEN [st EXCEPT !.err = TRUE, !.board = ZeroBoard]
             ELSE fillOtherSymbolsRow(im, b0, rowIdx, colIdx + 1,
                    [st EXCEPT
                       !.board = SetCell(@, rowIdx, colIdx,
                                   At(im.OtherSymbols, st.valIdx) + 1),
                       !.valIdx = @ + 1])
      ELSE fillOtherSymbolsRow(im, b0, rowIdx, colIdx + 1, st)

\* the outer loop of fillOtherSymbols
RECURSIVE fillOtherSymbolsFrom(_, _, _, _)
fillOtherSymbolsFrom(im, b0, rowIdx, st) ==
    IF st.err \/ rowIdx = 9 THEN st
    ELSE fillOtherSymbolsFrom(im, b0, rowIdx + 1,
                              fillOtherSymbolsRow(im, b0, rowIdx, 0, st))

fillOtherSymbols(im, b) ==
    fillOtherSymbolsFrom(im, b, 0, [err |-> FALSE, board |-> b, valIdx |-> 0])

\* toBoard: "ok" with the partial board, "err" (not enough values), "panic"
toBoard(im) ==
    LET nines == fill9s(im, ZeroBoard)
    IN IF nines.panic
         THEN [tag |-> "panic", board |-> ZeroBoard]
         ELSE LET filled == fillOtherSymbols(im, nines.board)
              IN IF filled.err
                   THEN [tag |-> "err", board |-> ZeroBoard]
                   ELSE [tag |-> "ok", board |-> filled.board]

\* uint(val)-1: an unsigned subtraction, val = 0 wraps to the largest uint
\* (any wrapped count is far above 8; 2^16 stands for 2^64)
uintDec(val) == (val - 1) % (2^16)

\* taken = taken + 1<<(uint(val)-1) in uint8: 0 and 9 add nothing
RECURSIVE takenFrom(_, _)
takenFrom(group, i) ==
    IF i = 0 THEN 0
    ELSE (takenFrom(group, i - 1) + Shl8(1, uintDec(group[i]))) % 256

lastMissing(group) == TrailingZeros8(Xor8(takenFrom(group, 9), 255)) + 1

solveSubgrids(b) ==
    [rowIdx \in Rows |-> [colIdx \in Rows |->
        IF rowIdx \in {0, 3} /\ colIdx \in {0, 3}
          THEN lastMissing(extractGrid(b, rowIdx \div 3, colIdx \div 3))
          ELSE b[rowIdx][colIdx]]]

solveRows(b) ==
    [rowIdx \in Rows |->
        IF rowIdx < 8
          THEN [b[rowIdx] EXCEPT ![8] = lastMissing(rowOf(b, rowIdx))]
          ELSE b[rowIdx]]

RECURSIVE solveColsFrom(_, _)
solveColsFrom(b, colIdx) ==
    IF colIdx = 9 THEN b
    ELSE solveColsFrom(SetCell(b, 8, colIdx, lastMissing(extractCol(b, colIdx))),
                       colIdx + 1)

solveCols(b) == solveColsFrom(b, 0)

\* solveNaively as it would be with the columns solved before the rows
solveNaivelyStatementSwapped(k, b) ==
    CASE k = 1 -> solveSubgrids(b)
      [] k = 2 -> solveCols(b)
      [] k = 3 -> solveRows(b)

\* statement k of solveNaively, applied to the board the one before left
solveNaivelyStatement(k, b) ==
    CASE k = 1 -> solveSubgrids(b)
      [] k = 2 -> solveRows(b)
      [] k = 3 -> solveCols(b)

solveNaively(b) ==
    solveNaivelyStatement(3, solveNaivelyStatement(2, solveNaivelyStatement(1, b)))

FromBytes(bytes) ==
    IF Len(bytes) < 9
      THEN [tag |-> "err", board |-> ZeroBoard]
      ELSE LET symbols == toSymbols(bytes)
               im == [RowWith9Last |-> Shr8(At(bytes, 0), 4),
                      NineIndices |-> SubSeq(symbols, 1, 8),
                      OtherSymbols |-> SubSeq(symbols, 9, Len(symbols))]
               partial == toBoard(im)
           IN IF partial.tag # "ok"
                THEN partial
                ELSE LET solved == solveNaively(partial.board)
                     IN IF ~validate(solved)
                          THEN [tag |-> "err", board |-> ZeroBoard]
                          ELSE [tag |-> "ok", board |-> solved]

(***************************************************************************)
(* Inputs: the boards of the test files, and solved boards derived from    *)
(* them by validity-preserving moves (rows rotated inside a band, bands    *)
(* rotated, the same for columns, digits relabelled cyclically).           *)
(***************************************************************************)
FromRows(rows) == [r \in Rows |-> [c \in Rows |-> rows[r + 1][c + 1]]]

working == FromRows(<<
    <<9, 8, 7, 6, 5, 4, 3, 2, 1>>,
    <<6, 5, 4, 3, 2, 1, 9, 8, 7>>,
    <<3, 2, 1, 9, 8, 7, 6, 5, 4>>,
    <<8, 9, 6, 7, 4, 5, 2, 1, 3>>,
    <<7, 4, 5, 2, 1, 3, 8, 9, 6>>,
    <<2, 1, 3, 8, 9, 6, 7, 4, 5>>,
    <<5, 7, 9, 4, 6, 8, 1, 3, 2>>,
    <<4, 6, 8, 1, 3, 2, 5, 7, 9>>,
    <<1, 3, 2, 5, 7, 9, 4, 6, 8>> >>)

workingBytes ==
    <<113, 153, 241, 95, 163, 70, 198, 136, 232, 143, 172, 174, 17, 156, 33,
      114, 23, 185, 204, 239, 9, 222, 17, 152>>

working9last == FromRows(<<
    <<9, 8, 7, 6, 5, 4, 3, 2, 1>>,
    <<6, 5, 4, 3, 2, 1, 9, 8, 7>>,
    <<3, 2, 1, 9, 8, 7, 6, 5, 4>>,
    <<8, 9, 6, 7, 4, 5, 2, 1, 3>>,
    <<7, 4, 5, 2, 1, 3, 8, 9, 6>>,
    <<2, 1, 3, 8, 9, 6, 7, 4, 5>>,
    <<5, 7, 9, 4, 6, 8, 1, 3, 2>>,
    <<1, 3, 2, 5, 7, 9, 4, 6, 8>>,
    <<4, 6, 8, 1, 3, 2, 5, 7, 9>> >>)

workingBytes9last ==
    <<129, 153, 241, 95, 163, 70, 198, 136, 232, 143, 172, 174, 17, 156, 33,
      114, 23, 185, 204, 239, 8, 35, 51, 160>>

working9firstOf2Grids == FromRows(<<
    <<9, 8, 7, 6, 5, 4, 3, 2, 1>>,
    <<6, 5, 4, 3, 2, 1, 9, 8, 7>>,
    <<3, 2, 1, 8, 9, 7, 6, 5, 4>>,
    <<2, 1, 3, 9, 8, 6, 7, 4, 5>>,
    <<8, 9, 6, 7, 4, 5, 2, 1, 3>>,
    <<7, 4, 5, 2, 1, 3, 8, 9, 6>>,
    <<5, 7, 9, 4, 6, 8, 1, 3, 2>>,
    <<1, 3, 2, 5, 7, 9, 4, 6, 8>>,
    <<4, 6, 8, 1, 3, 2, 5, 7, 9>> >>)

workingBytes9firstOf2Grids ==
    <<129, 163, 61, 95, 163, 70, 198, 136, 232, 143, 172, 11, 220, 253, 206,
      17, 156, 33, 121, 157, 225, 4, 102, 116>>

workingIdeal9s == FromRows(<<
    <<6, 5, 4, 3, 2, 1, 9, 8, 7>>,
    <<9, 8, 7, 6, 5, 4, 3, 2, 1>>,
    <<3, 2, 1, 8, 9, 7, 6, 5, 4>>,
    <<8, 9, 6, 7, 4, 5, 2, 1, 3>>,
    <<2, 1, 3, 9, 8, 6, 7, 4, 5>>,
    <<7, 4, 5, 2, 1, 3, 8, 9, 6>>,
    <<5, 7, 9, 4, 6, 8, 1, 3, 2>>,
    <<1, 3, 2, 5, 7, 9, 4, 6, 8>>,
    <<4, 6, 8, 1, 3, 2, 5, 7, 9>> >>)

workingBytesIdeal9s ==
    <<140, 33, 125, 88, 200, 255, 88, 209, 68, 125, 101, 112, 130, 23, 185,
      231, 8, 94, 103, 120, 65, 25, 157>>

emptyBoard == ZeroBoard

rowWithTwo9s == SetCell(working, 0, 1, 9)

with0 == SetCell(working, 3, 3, 0)

with10 == SetCell(working, 4, 4, 10)

withMinus1 == SetCell(working, 6, 1, -1)

wrongCols == [working EXCEPT ![3] = [c \in Rows |->
                 At(<<9, 8, 6, 7, 5, 4, 3, 2, 1>>, c)]]

wrongGrids == [working EXCEPT ![2] = working[3], ![3] = working[2]]

\* fromBytesTests: "short bytes", "wrong bytes", "bytes leading to incorrect board"
shortBytes == <<1, 2, 3, 4, 5, 6, 7, 8>>

wrongBytes == <<1, 2, 3, 4, 5, 6, 7, 8, 9>>

incorrectBoardBytes ==
    <<129, 154, 241, 95, 172, 104, 216, 209, 29, 17, 245, 158, 231, 8, 206,
      16, 185, 11, 220, 230, 119, 132, 17, 153, 208>>

Fixtures == <<working, working9last, working9firstOf2Grids, workingIdeal9s>>

BadFixtures == {emptyBoard, rowWithTwo9s, with0, with10, withMinus1,
                wrongCols, wrongGrids}

\* p read in base 3: rotation of the rows inside band 2, of the bands, of the
\* rows inside band 0, of the rows inside band 1
RotIndex(i, p) ==
    LET band == i \div 3
        inBand == IF band = 2 THEN p % 3
                  ELSE IF band = 0 THEN (p \div 9) % 3
                  ELSE (p \div 27) % 3
    IN 3 * ((band + ((p \div 3) % 3)) % 3) + ((i + inBand) % 3)

RotRows(b, p) == [r \in Rows |-> b[RotIndex(r, p)]]

RotCols(b, p) == [r \in Rows |-> [c \in Rows |-> b[r][RotIndex(c, p)]]]

Relabel(b, k) == [r \in Rows |-> [c \in Rows |-> ((b[r][c] - 1 + k) % 9) + 1]]

Derived(base, rp, cp, k) == Relabel(RotCols(RotRows(base, rp), cp), k)

(***************************************************************************)
(* What the spec calls a solved board, stated without the validator: every *)
(* row, column and 3x3 block holds each of 1..9 exactly once.              *)
(***************************************************************************)
Once(group) == \A d \in 1..9 : Cardinality({i \in 1..9 : group[i] = d}) = 1

IsSolved(b) ==
    /\ \A r \in Rows : Once(rowOf(b, r))
    /\ \A c \in Rows : Once(extractCol(b, c))
    /\ \A x \in 0..2 : \A y \in 0..2 : Once(extractGrid(b, x, y))

(***************************************************************************)
(* The codec as a state machine: a caller holds a board, calls ToBytes,    *)
(* hands the bytes (or bytes of its own) to FromBytes.                     *)
(***************************************************************************)
MaxRowPerm == 8
MaxColPerm == 2
MaxShift == 8
MaxBadCell == 8

NoEnc == [tag |-> "none", bytes |-> <<>>]
NoDec == [tag |-> "none", board |-> ZeroBoard]
NoProbe == [kind |-> "none", arg |-> 0]
NoLens == [own |-> 0, peer |-> 0]

\* solved boards handed to ToBytes
Boards ==
    {Derived(Fixtures[f], rp, cp, k) :
        f \in 1..4, rp \in 0..MaxRowPerm, cp \in 0..MaxColPerm, k \in 0..MaxShift}

\* boards ToBytes must reject
BadBoards ==
    BadFixtures \cup
    {SetCell(working, cell \div 9, cell % 9, v) :
        cell \in 0..MaxBadCell, v \in {-1, 0, 10}}

Idle ==
    /\ peer = ZeroBoard /\ lens = NoLens /\ enc = NoEnc /\ probe = NoProbe
    /\ wire = <<>> /\ dec = NoDec /\ ok = FALSE /\ grid = ZeroBoard
    /\ nibble = 0 /\ syms = <<>> /\ unpacked = <<>>

Init ==
    /\ pc = "start"
    /\ board \in Boards \cup BadBoards
    /\ Idle

ToBytesCall ==
    /\ pc = "start"
    /\ enc' = ToBytes(board)
    /\ pc' = "encoded"
    /\ UNCHANGED <<board, peer, lens, probe, wire, dec, ok, grid, nibble, syms,
                   unpacked>>

\* the caller passes the bytes it got on, untouched
Deliver ==
    /\ pc = "encoded"
    /\ enc.tag = "ok"
    /\ wire' = enc.bytes
    /\ probe' = [kind |-> "intact", arg |-> 0]
    /\ pc' = "wire"
    /\ UNCHANGED <<board, peer, lens, enc, dec, ok, grid, nibble, syms, unpacked>>

FromBytesCall ==
    /\ pc = "wire"
    /\ dec' = FromBytes(wire)
    /\ pc' = "decoded"
    /\ UNCHANGED <<board, peer, lens, enc, probe, wire, ok, grid, nibble, syms,
                   unpacked>>

Next == ToBytesCall \/ Deliver \/ FromBytesCall

Spec == Init /\ [][Next]_vars

(***************************************************************************)
(* Bytes that reach FromBytes changed or from elsewhere: one bit flipped,  *)
(* the row nibble replaced, the tail cut off, or bytes that were never an  *)
(* encoding.                                                               *)
(***************************************************************************)
MaxTamper == 2
MaxRawLen == 10

TamperBoards == {Derived(Fixtures[f], t, 0, t) : f \in 1..4, t \in 0..MaxTamper}

RawInputs ==
    {shortBytes, wrongBytes, incorrectBoardBytes} \cup
    {[i \in 1..n |-> x] : n \in 0..MaxRawLen, x \in {0, 7, 144, 255}}

\* bit i of the stream (0 = the top bit of the first byte) inverted
flipBit(bytes, i) ==
    [bytes EXCEPT ![(i \div 8) + 1] = Xor8(@, At(bitMasks, i % 8))]

InitTamper ==
    \/ /\ pc = "start"
       /\ board \in TamperBoards
       /\ Idle
    \/ /\ pc = "wire"
       /\ board = ZeroBoard
       /\ peer = ZeroBoard /\ lens = NoLens /\ enc = NoEnc
       /\ probe = [kind |-> "raw", arg |-> 0]
       /\ wire \in RawInputs
       /\ dec = NoDec /\ ok = FALSE /\ grid = ZeroBoard
       /\ nibble = 0 /\ syms = <<>> /\ unpacked = <<>>

FlipBit ==
    /\ pc = "encoded"
    /\ enc.tag = "ok"
    /\ \E i \in 0..((8 * Len(enc.bytes)) - 1) :
          /\ wire' = flipBit(enc.bytes, i)
          /\ probe' = [kind |-> "flip", arg |-> i]
    /\ pc' = "wire"
    /\ UNCHANGED <<board, peer, lens, enc, dec, ok, grid, nibble, syms, unpacked>>

SetNibble ==
    /\ pc = "encoded"
    /\ enc.tag = "ok"
    /\ \E n \in 0..15 :
          /\ wire' = [enc.bytes EXCEPT ![1] = (n * 16) + (@ % 16)]
          /\ probe' = [kind |-> "nibble", arg |-> n]
    /\ pc' = "wire"
    /\ UNCHANGED <<board, peer, lens, enc, dec, ok, grid, nibble, syms, unpacked>>

Truncate ==
    /\ pc = "encoded"
    /\ enc.tag = "ok"
    /\ \E n \in 0..(Len(enc.bytes) - 1) :
          /\ wire' = SubSeq(enc.bytes, 1, n)
          /\ probe' = [kind |-> "cut", arg |-> n]
    /\ pc' = "wire"
    /\ UNCHANGED <<board, peer, lens, enc, dec, ok, grid, nibble, syms, unpacked>>

NextTamper ==
    ToBytesCall \/ Deliver \/ FlipBit \/ SetNibble \/ Truncate \/ FromBytesCall

SpecTamper == InitTamper /\ [][NextTamper]_vars

(***************************************************************************)
(* validate alone, on solved boards and on boards spoilt in one place: a   *)
(* cell overwritten, two cells exchanged, two rows or columns exchanged.   *)
(***************************************************************************)
MaxOver == 10
MaxNeg == 1
MaxSwapBase == 1

SwapCells(b, i, j) ==
    [r \in Rows |-> [c \in Rows |->
        IF (9 * r) + c = i THEN b[j \div 9][j % 9]
        ELSE IF (9 * r) + c = j THEN b[i \div 9][i % 9]
        ELSE b[r][c]]]

SwapRows(b, i, j) == [b EXCEPT ![i] = b[j], ![j] = b[i]]

SwapCols(b, i, j) ==
    [r \in Rows |-> [b[r] EXCEPT ![i] = b[r][j], ![j] = b[r][i]]]

ValidateInputs ==
    Boards \cup BadFixtures
    \cup {SetCell(Fixtures[f], cell \div 9, cell % 9, v) :
            f \in 1..4, cell \in 0..80, v \in (0 - MaxNeg)..MaxOver}
    \cup {SwapCells(Fixtures[f], i, j) :
            f \in 1..MaxSwapBase, i \in 0..80, j \in 0..80}
    \cup {SwapRows(Fixtures[f], i, j) : f \in 1..4, i \in Rows, j \in Rows}
    \cup {SwapCols(Fixtures[f], i, j) : f \in 1..4, i \in Rows, j \in Rows}

\* validate(board [9][9]int), its rows copied by range and validateGroup(group
\* [9]int) all take arrays by value: sort.Ints sorts a copy, and the caller's
\* array is as it was
callerBoardAfterValidate(b) == b

InitValidate ==
    /\ pc = "start"
    /\ board \in ValidateInputs
    /\ Idle

ValidateCall ==
    /\ pc = "start"
    /\ ok' = validate(board)
    /\ board' = callerBoardAfterValidate(board)
    /\ pc' = "validated"
    /\ UNCHANGED <<peer, lens, enc, probe, wire, dec, grid, nibble, syms, unpacked>>

NextValidate == ValidateCall

SpecValidate == InitValidate /\ [][NextValidate]_vars

(***************************************************************************)
(* solveNaively statement by statement, from the board toBoard leaves: a   *)
(* solved board with row 8, column 8 and the anchors emptied, 9s kept.     *)
(***************************************************************************)
Blank(b) ==
    [r \in Rows |-> [c \in Rows |->
        IF b[r][c] = 9 THEN 9
        ELSE IF r = 8 \/ c = 8 \/ firstInBlock(r, c) THEN 0
        ELSE b[r][c]]]

InitSolve ==
    /\ pc = "partial"
    /\ board \in Boards
    /\ grid = Blank(board)
    /\ peer = ZeroBoard /\ lens = NoLens /\ enc = NoEnc /\ probe = NoProbe
    /\ wire = <<>> /\ dec = NoDec /\ ok = FALSE
    /\ nibble = 0 /\ syms = <<>> /\ unpacked = <<>>

SolveSubgridsStep ==
    /\ pc = "partial"
    /\ grid' = solveNaivelyStatement(1, grid)
    /\ pc' = "subgrids"
    /\ UNCHANGED <<board, peer, lens, enc, probe, wire, dec, ok, nibble, syms,
                   unpacked>>

SolveRowsStep ==
    /\ pc = "subgrids"
    /\ grid' = solveNaivelyStatement(2, grid)
    /\ pc' = "rows"
    /\ UNCHANGED <<board, peer, lens, enc, probe, wire, dec, ok, nibble, syms,
                   unpacked>>

SolveColsStep ==
    /\ pc = "rows"
    /\ grid' = solveNaivelyStatement(3, grid)
    /\ pc' = "cols"
    /\ UNCHANGED <<board, peer, lens, enc, probe, wire, dec, ok, nibble, syms,
                   unpacked>>

NextSolve == SolveSubgridsStep \/ SolveRowsStep \/ SolveColsStep

SpecSolve == InitSolve /\ [][NextSolve]_vars

(***************************************************************************)
(* The packing loop of ToBytes and toSymbols alone, on a row nibble and a  *)
(* run of 3-bit symbols.                                                   *)
(***************************************************************************)
MaxStride == 2
MaxSpike == 7

SymbolLens == 60..62

\* symbols a, a+b, a+2b, ... modulo 8
Affine(len, a, b) == [i \in 1..len |-> (a + (b * (i - 1))) % 8]

\* zeros with the value v at index p
Spike(len, p, v) == [i \in 1..len |-> IF i = p + 1 THEN v % 8 ELSE 0]

InitPack ==
    /\ pc = "start"
    /\ \/ /\ nibble \in 0..8
          /\ syms \in {Affine(len, a, b) :
                         len \in SymbolLens, a \in 0..7, b \in 0..MaxStride}
       \/ \E len \in SymbolLens : \E p \in 0..(len - 1) :
             /\ nibble = p % 9
             /\ syms \in {Spike(len, p, v) : v \in 1..MaxSpike}
    /\ board = ZeroBoard
    /\ peer = ZeroBoard /\ lens = NoLens /\ enc = NoEnc /\ probe = NoProbe
    /\ wire = <<>> /\ dec = NoDec /\ ok = FALSE /\ grid = ZeroBoard
    /\ unpacked = <<>>

PackCall ==
    /\ pc = "start"
    /\ enc' = pack(nibble, syms)
    /\ pc' = "packed"
    /\ UNCHANGED <<board, peer, lens, probe, wire, dec, ok, grid, nibble, syms,
                   unpacked>>

ToSymbolsCall ==
    /\ pc = "packed"
    /\ enc.tag = "ok"
    /\ unpacked' = toSymbols(enc.bytes)
    /\ pc' = "unpacked"
    /\ UNCHANGED <<board, peer, lens, enc, probe, wire, dec, ok, grid, nibble,
                   syms>>

NextPack == PackCall \/ ToSymbolsCall

SpecPack == InitPack /\ [][NextPack]_vars

(***************************************************************************)
(* Two solved boards side by side: how many symbols toIntermediate keeps   *)
(* for each, then the first one through ToBytes and FromBytes.             *)
(***************************************************************************)
MaxAnchorRowPerm == 2
MaxAnchorShift == 2
MaxPeerShift == 1

AnchorBoards ==
    {Derived(Fixtures[f], rp, 0, k) :
        f \in 1..4, rp \in 0..MaxAnchorRowPerm, k \in 0..MaxAnchorShift}

PeerBoards == {Relabel(Fixtures[f], k) : f \in 1..4, k \in 0..MaxPeerShift}

InitAnchor ==
    /\ pc = "pair"
    /\ board \in AnchorBoards
    /\ peer \in PeerBoards
    /\ lens = NoLens /\ enc = NoEnc /\ probe = NoProbe
    /\ wire = <<>> /\ dec = NoDec /\ ok = FALSE /\ grid = ZeroBoard
    /\ nibble = 0 /\ syms = <<>> /\ unpacked = <<>>

ToIntermediateCall ==
    /\ pc = "pair"
    /\ lens' = [own |-> Len(toIntermediate(board).OtherSymbols),
                peer |-> Len(toIntermediate(peer).OtherSymbols)]
    /\ pc' = "start"
    /\ UNCHANGED <<board, peer, enc, probe, wire, dec, ok, grid, nibble, syms,
                   unpacked>>

NextAnchor == ToIntermediateCall \/ ToBytesCall \/ Deliver \/ FromBytesCall

SpecAnchor == InitAnchor /\ [][NextAnchor]_vars

(***************************************************************************)
(* The properties.  What the documentation promises is stated from its own *)
(* words: the anchor cells, the bit layout and the stream length are       *)
(* written out here, not taken from the operators above.                   *)
(***************************************************************************)
Anchors == {<<0, 0>>, <<0, 3>>, <<3, 0>>, <<3, 3>>}

Anchor9s(b) == Cardinality({a \in Anchors : b[a[1]][a[2]] = 9})

Last9InRow8(b) == b[8][8] = 9

RowOf9InLastCol(b) == CHOOSE r \in Rows : b[r][8] = 9

ColOf9(b, r) == CHOOSE c \in Rows : b[r][c] = 9

\* the cells that are written as 3-bit symbols, in row-major order
SymbolCells(b) ==
    LET kept(cell) ==
            /\ cell.rowIdx < 8 /\ cell.colIdx < 8
            /\ b[cell.rowIdx][cell.colIdx] # 9
            /\ <<cell.rowIdx, cell.colIdx>> \notin Anchors
    IN SelectSeq(cellOrder, kept)

\* the 3-bit fields: the columns of the 9s of the eight other rows, then the
\* symbols
Fields(b) ==
    LET special == RowOf9InLastCol(b)
        cells == SymbolCells(b)
    IN [i \in 1..8 |-> ColOf9(b, IF i - 1 < special THEN i - 1 ELSE i)]
       \o [i \in 1..Len(cells) |-> b[cells[i].rowIdx][cells[i].colIdx] - 1]

StreamBits(b) == 4 + (3 * Len(Fields(b)))

\* bit i (0 = first) of the documented stream, zero past its end
LayoutBit(b, i) ==
    IF i < 4 THEN Bit(RowOf9InLastCol(b), 3 - i)
    ELSE IF i >= StreamBits(b) THEN 0
    ELSE Bit(Fields(b)[((i - 4) \div 3) + 1], 2 - ((i - 4) % 3))

\* the bytes the documented stream fills, most significant bit first
LayoutBytes(b) ==
    [n \in 1..((StreamBits(b) + 7) \div 8) |->
        LET bit(k) == LayoutBit(b, (8 * (n - 1)) + k)
        IN (128 * bit(0)) + (64 * bit(1)) + (32 * bit(2)) + (16 * bit(3))
           + (8 * bit(4)) + (4 * bit(5)) + (2 * bit(6)) + bit(7)]

Called == pc \in {"encoded", "wire", "decoded"}

\* C1: every solved board is encoded without error, and decoding the bytes
\* gives the same board back without error
C1_RoundTrip ==
    IsSolved(board) =>
        /\ (Called => enc.tag = "ok")
        /\ (pc = "decoded" => (dec.tag = "ok" /\ dec.board = board))

\* C2: ToBytes ends in one of two ways, an error for a board validate rejects
\* and bytes for a board validate accepts; no write leaves the 24-byte buffer
C2_TwoOutcomes ==
    Called =>
        IF validate(board)
          THEN enc.tag = "ok" /\ Len(enc.bytes) > 0
          ELSE enc.tag = "err" /\ enc.bytes = <<>>

\* C3: for a solved board the stream is at most 192 bits and ToBytes returns
\* 23 or 24 bytes
C3_Length ==
    (Called /\ IsSolved(board)) =>
        /\ 4 + (8 * 3) + (3 * Len(toIntermediate(board).OtherSymbols)) <= 192
        /\ enc.tag = "ok"
        /\ Len(enc.bytes) \in {23, 24}

\* C4: FromBytes either returns a board that passes validate and no error, or
\* the all-zero board and an error; fewer than 9 bytes always give the error
C4_TwoOutcomes ==
    pc = "decoded" =>
        /\ \/ dec.tag = "ok" /\ validate(dec.board)
           \/ dec.tag = "err" /\ dec.board = ZeroBoard
        /\ (Len(wire) < 9 => dec.tag = "err")

SameClass == Last9InRow8(board) <=> Last9InRow8(peer)

OneMoreAnchor9 ==
    pc # "pair" /\ SameClass /\ Anchor9s(board) = Anchor9s(peer) + 1

Flipped == pc = "decoded" /\ probe.kind = "flip"

\* C6: after one flipped bit FromBytes returns the board again (padding bits
\* only) or an error, never anything else
C6_FlipDetected ==
    Flipped =>
        \/ dec.tag = "err"
        \/ dec.tag = "ok" /\ dec.board = board /\ probe.arg >= StreamBits(board)

\* C7: the bytes ToBytes returns for a solved board are the documented
\* stream: row nibble, eight 3-bit columns, the 3-bit symbols, zero padding
C7_WireLayout ==
    (Called /\ IsSolved(board)) =>
        (enc.tag = "ok" /\ enc.bytes = LayoutBytes(board))

\* C8: validate answers true exactly for the boards whose rows, columns and
\* blocks each hold 1..9 once, and leaves the caller's board as it was
C8_ValidatorSound ==
    [][pc' = "validated" =>
          (/\ ok' <=> IsSolved(board)
           /\ board' = board)]_vars

\* a board rejected for its blocks alone: every row and column is in order
C8_Witness ==
    /\ pc = "validated" /\ ~ok
    /\ \A r \in Rows : Once(rowOf(board, r))
    /\ \A c \in Rows : Once(extractCol(board, c))

\* C9: from the emptied board the three statements of solveNaively, in their
\* order, rebuild the board; each reads only cells that are final already,
\* besides the still empty (0) cells it is about to fill
C9_Reconstruction ==
    /\ pc = "partial" =>
          \A r \in 0..5 : \A c \in 0..5 :
             \/ grid[r][c] = board[r][c]
             \/ grid[r][c] = 0 /\ <<r, c>> \in Anchors
    /\ pc = "subgrids" =>
          /\ \A r \in 0..7 : \A c \in 0..7 : grid[r][c] = board[r][c]
          /\ \A r \in 0..7 : grid[r][8] \in {0, board[r][8]}
    /\ pc = "rows" =>
          /\ \A r \in 0..7 : \A c \in Rows : grid[r][c] = board[r][c]
          /\ \A c \in Rows : grid[8][c] \in {0, board[8][c]}
    /\ pc = "cols" => grid = board

\* a board rebuilt whose anchor (3,3) and corner (8,8) both had to be derived
C9_Witness ==
    /\ pc = "cols" /\ grid = board
    /\ Blank(board)[3][3] = 0
    /\ Blank(board)[8][8] = 0

\* C10: what the loop of ToBytes packs, toSymbols unpacks: the row nibble is
\* the high half of the first byte, the symbols come back in order, and a
\* symbol past them is read from zero padding
C10_PackUnpack ==
    /\ (pc # "start" => enc.tag = "ok")
    /\ (pc = "unpacked" =>
          /\ enc.bytes[1] \div 16 = nibble
          /\ Len(unpacked) >= Len(syms)
          /\ \A j \in 1..Len(unpacked) :
                unpacked[j] = IF j <= Len(syms) THEN syms[j] ELSE 0)

\* 61 symbols, the last not zero, unpacked with a trailing padding symbol
C10_Witness ==
    /\ pc = "unpacked"
    /\ Len(unpacked) > Len(syms)
    /\ syms[Len(syms)] # 0

====
